---- MODULE Spec2Model ----
(***************************************************************************)
(* The dashboard script of the measurement rig (src/script.js, the         *)
(* revision headed "final script.js", lines 347-625): the session          *)
(* snapshot lastResults, the chart series, the radar animation and the     *)
(* asynchronous handlers that change them.  The minimal page script        *)
(* src/unnamed/part_000 is modelled beside it where a property names it.   *)
(*                                                                         *)
(* Units.  Distances are whole centimetres and temperatures whole degrees. *)
(* An accuracy is held in hundredths of a percent (8074 is 80.74 %), which *)
(* is what Math.round(acc*100) yields before the division by 100.  Angles  *)
(* are in microradians, a blip's ttl in thousandths of a tick and its      *)
(* alpha in millionths.  A standard deviation sqrt(S)/n is held as the     *)
(* pair (n, S) so that no square root is approximated.                     *)
(***************************************************************************)
EXTENDS Integers, Sequences, FiniteSets, TLC

(***************************************************************************)
(* JavaScript values.  Every value carries its type tag t; a number its    *)
(* value n, a string or an rgb object an identifying index n, an array     *)
(* its elements a.                                                         *)
(***************************************************************************)
Num(n) == [t |-> "number", n |-> n]
Str(k) == [t |-> "string", n |-> k]
Rgb(k) == [t |-> "rgb", n |-> k]
Arr(s) == [t |-> "array", n |-> Len(s), a |-> s]
Null == [t |-> "null", n |-> 0]
Undefined == [t |-> "undefined", n |-> 0]
NaN == [t |-> "NaN", n |-> 0]
\* the parsed response object itself, as a value (data in "data.distance ?? data")
Obj == [t |-> "object", n |-> 0]
\* the empty string, the one falsy string
EmptyStr == Str(0)
\* the strings of the responses, and the placeholder text the page shows before any value
Cube == Str(1)
Wood == Str(2)
Dash == Str(3)

IsNum(v) == v.t = "number"

\* ToBoolean
Truthy(v) ==
  CASE v.t = "number" -> v.n # 0
    [] v.t = "string" -> v.n # 0
    [] v.t \in {"object", "rgb", "array"} -> TRUE
    [] OTHER -> FALSE

\* a || b
Or(a, b) == IF Truthy(a) THEN a ELSE b

\* a ?? b
Coalesce(a, b) == IF a.t \in {"null", "undefined"} THEN b ELSE a

\* the text  v + ' °C'  is kept as v; parseFloat of it is v for a number and NaN otherwise
ParseFloat(text) == IF IsNum(text) THEN text ELSE NaN

Max(a, b) == IF a >= b THEN a ELSE b
Min(a, b) == IF a <= b THEN a ELSE b
Abs(a) == IF a >= 0 THEN a ELSE -a

(***************************************************************************)
(* Statistics                                                              *)
(***************************************************************************)
\* 0.8 per degree and 80.0 percent, in hundredths of a percent
ACCURACY_K == 80
ACCURACY_MIN == 8000
\* MAX_POINTS, the capacity of the chart series
MAX_POINTS == 10

\* ToNumber of an array element inside a + b and v - m: null counts as 0
ElemNum(v) == IF IsNum(v) THEN v.n ELSE 0

RECURSIVE SumSeq(_)
SumSeq(s) == IF s = <<>> THEN 0 ELSE ElemNum(Head(s)) + SumSeq(Tail(s))

RECURSIVE SumSqSeq(_)
SumSqSeq(s) == IF s = <<>> THEN 0 ELSE ElemNum(Head(s)) * ElemNum(Head(s)) + SumSqSeq(Tail(s))

\* a standard deviation sqrt(S)/n, or NaN
Sigma(n, S) == [nan |-> FALSE, n |-> n, S |-> S]
SigmaNaN == [nan |-> TRUE, n |-> 1, S |-> 0]

\* stddev(arr): 0 for the empty array; NaN as soon as an element is neither a number nor
\* null (0 + object is a string, 0 + undefined is NaN); otherwise the population deviation,
\* sqrt(sum((v-m)^2)/n) = sqrt(n*sum(v^2) - sum(v)^2) / n
stddev(arr) ==
  IF Len(arr) = 0 THEN Sigma(1, 0)
  ELSE IF \E i \in 1..Len(arr) : arr[i].t \notin {"number", "null"} THEN SigmaNaN
  ELSE Sigma(Len(arr), Len(arr) * SumSqSeq(arr) - SumSeq(arr) * SumSeq(arr))

\* the least m in lo..hi with (2m+1)*n >= 400*sqrt(S), which is ceil(200*sqrt(S)/n - 1/2)
RECURSIVE HalfUp(_, _, _, _)
HalfUp(n, S, lo, hi) ==
  IF lo >= hi THEN lo
  ELSE LET mid == (lo + hi) \div 2
       IN IF ((2 * mid + 1) * n) * ((2 * mid + 1) * n) >= 160000 * S
          THEN HalfUp(n, S, lo, mid)
          ELSE HalfUp(n, S, mid + 1, hi)

\* the number a temperature argument contributes to (x||0): a falsy value is 0
TempNum(v) == IF Truthy(v) THEN v.n ELSE 0

\* computeAccuracy(amb, obj, sigma), in hundredths: 100 - (K*dt + 2*sigma), floored at
\* ACCURACY_MIN, then Math.round(acc*100).  NaN when sigma or a temperature is not a number.
computeAccuracy(amb, obj, sigma) ==
  IF sigma.nan \/ (Truthy(amb) /\ ~IsNum(amb)) \/ (Truthy(obj) /\ ~IsNum(obj)) THEN NaN
  ELSE LET dt == Abs(TempNum(obj) - TempNum(amb))
       IN IF sigma.S > 100 * sigma.n * sigma.n \/ ACCURACY_K * dt > 10000 - ACCURACY_MIN
          THEN Num(ACCURACY_MIN)
          ELSE Num(Max(ACCURACY_MIN,
                       10000 - ACCURACY_K * dt - HalfUp(sigma.n, sigma.S, 0, 2000)))

(***************************************************************************)
(* Inputs: the measurement kinds, the response bodies of the three         *)
(* measurement endpoints and of /status, and the draws of Math.random().   *)
(***************************************************************************)
Kinds == {"distance", "shape", "material"}
Sensors == {"ultrasonic", "color", "temperature", "button", "oled", "buzzer"}

\* a response body: every field the handlers read; an absent field reads as undefined
Body == [distance |-> Undefined, speed |-> Undefined, ambient_temp |-> Undefined,
         readings |-> Undefined, shape |-> Undefined, material |-> Undefined,
         rgb |-> Undefined, object_temp |-> Undefined]

DistanceBodies ==
  { [Body EXCEPT !.distance = Num(50)],
    [Body EXCEPT !.distance = Num(0), !.speed = Num(343), !.ambient_temp = Num(20)],
    Body }

ShapeBodies ==
  { [Body EXCEPT !.readings = Arr(<<Num(48), Num(52)>>), !.shape = Cube],
    [Body EXCEPT !.readings = Arr(<<Null, Num(250)>>)],
    Body }

MaterialBodies ==
  { [Body EXCEPT !.material = Wood, !.rgb = Rgb(1), !.object_temp = Num(40),
                 !.ambient_temp = Num(20)],
    [Body EXCEPT !.object_temp = Num(22)],
    [Body EXCEPT !.material = EmptyStr, !.object_temp = Null, !.ambient_temp = Num(0)] }

Bodies(type) ==
  CASE type = "distance" -> DistanceBodies
    [] type = "shape" -> ShapeBodies
    [] type = "material" -> MaterialBodies

StatusBody == [ultrasonic |-> Undefined, color |-> Undefined, temperature |-> Undefined,
               button |-> Undefined, oled |-> Undefined, buzzer |-> Undefined,
               ambient_temp |-> Undefined, object_temp |-> Undefined]

True == [t |-> "boolean", n |-> 1]
False == [t |-> "boolean", n |-> 0]

StatusBodies ==
  { [StatusBody EXCEPT !.ultrasonic = False, !.color = True, !.ambient_temp = Num(20),
                       !.object_temp = Num(40)],
    [StatusBody EXCEPT !.buzzer = False, !.ambient_temp = Null, !.object_temp = Null] }

\* the two Math.random() draws of one addBlip call, for the angle and for the ttl, in
\* thousandths.  The session's handlers are explored with one pair of draws: nothing they
\* store outside the blip depends on them.
Draws == {<<0, 995>>}

(***************************************************************************)
(* State                                                                   *)
(***************************************************************************)
VARIABLES
  lastResults,  \* the session snapshot
  chartData,    \* chart.data.datasets[0].data
  sweep,        \* the sweep angle
  blips,        \* the radar's blips, in array order
  live,         \* the text of live.amb and live.obj (the value before ' °C')
  dots,         \* the class of each sensor's indicator
  btnDisabled,  \* btn.disabled of each measurement trigger
  fetching,     \* per kind, the callMeasure calls awaiting their measurement response
  alerting,     \* per kind, the callMeasure calls awaiting the response of /buzzer
  buzzerCalls,  \* the POSTs to /buzzer issued so far
  clicks,       \* the measurement triggers fired so far
  ticks,        \* the animation frames drawn so far
  measured,     \* whether a measurement response has been handled
  pushed,       \* every value handed to pushChart so far, in order
  page,         \* the page of the minimal script (unnamed/part_000)
  modal         \* what the conclusion modal shows of the explanation; null until opened

vars == <<lastResults, chartData, sweep, blips, live, dots, btnDisabled, fetching,
          alerting, buzzerCalls, clicks, ticks, measured, pushed, page, modal>>

\* the measurement triggers fired in a run, and the frames drawn
MaxClicks == 2
MaxTicks == 1
\* the triggers fired in a run that only fills the chart
MaxChartClicks == 6
\* the triggers fired in a run of the minimal page
MaxSends == 4
\* the triggers fired and the frames drawn in a run that lets blips expire
MaxRadarClicks == 1
MaxRadarTicks == 73
\* the frames drawn in a run that takes the sweep arms past a full turn
MaxSweepTicks == 212
MaxPageFrames == 212
\* the triggers fired and the frames drawn in a run of distances in and out of range
MaxClampClicks == 2
MaxClampTicks == 2
\* the triggers fired and the frames drawn in a run with every kind in flight at once
MaxFlightClicks == 3
MaxFlightTicks == 1
\* the triggers fired in a run where the frames go on until the blips are gone, and the
\* frames drawn while there is no blip
MaxDecayClicks == 1
MaxDecayTicks == 2

Init ==
  /\ lastResults = [distance |-> Null, readings |-> <<>>, shape |-> Null, material |-> Null,
                    rgb |-> Null, objTemp |-> Null, ambTemp |-> Null, speed |-> Null,
                    accuracy |-> Null]
  /\ chartData = [i \in 1..MAX_POINTS |-> Null]
  /\ sweep = 0
  /\ blips = <<>>
  /\ live = [amb |-> Dash, obj |-> Dash]
  /\ dots = [s \in Sensors |-> "initial"]
  /\ btnDisabled = [k \in Kinds |-> FALSE]
  /\ fetching = [k \in Kinds |-> 0]
  /\ alerting = [k \in Kinds |-> 0]
  /\ buzzerCalls = 0
  /\ clicks = 0
  /\ ticks = 0
  /\ measured = FALSE
  /\ pushed = <<>>
  /\ page = [pending |-> [k \in Kinds |-> 0],
             active |-> [k \in Kinds |-> FALSE],
             output |-> Null,
             sent |-> 0,
             angle |-> 0]
  /\ modal = Null

(***************************************************************************)
(* Chart series and radar                                                  *)
(***************************************************************************)
\* a slip that would never evict
pushNoEvict(d, v) == Append(d, v)

\* a slip that would evict with pop() instead of shift()
pushPop(d, v) ==
  LET e == Append(d, v)
  IN IF Len(e) > MAX_POINTS THEN SubSeq(e, 1, MAX_POINTS) ELSE e

pushChart(d, v) ==
  LET e == Append(d, v)
  IN IF Len(e) > MAX_POINTS THEN Tail(e) ELSE e

\* a slip that would scale the distance without clamping it
NormUnclamped(distanceCm) ==
  CASE IsNum(distanceCm) -> Num(distanceCm.n)
    [] distanceCm.t = "null" -> Num(0)
    [] OTHER -> NaN

\* distanceCm / 200 clamped to [0,1], in two-hundredths: Math.max(0, Math.min(1, x)) is NaN
\* for a NaN x, and null / 200 is 0
Norm(distanceCm) ==
  CASE IsNum(distanceCm) -> Num(Max(0, Min(200, distanceCm.n)))
    [] distanceCm.t = "null" -> Num(0)
    [] OTHER -> NaN

\* a slip that would let a blip live up to 470 ticks
addBlipLongLived(bl, sw, distanceCm, draw) ==
  Append(bl, [r |-> Norm(distanceCm),
              angle |-> sw + (draw[1] - 500) * 600,
              alpha |-> 1000000,
              ttl |-> 70000 + draw[2] * 400])

\* addBlip(distanceCm) onto the blips bl at sweep angle sw; draw = <<jitter, ttl>> draws.
\* r is in two-hundredths of maxR.
addBlip(bl, sw, distanceCm, draw) ==
  Append(bl, [r |-> Norm(distanceCm),
              angle |-> sw + (draw[1] - 500) * 600,
              alpha |-> 1000000,
              ttl |-> 70000 + draw[2] * 40])

(***************************************************************************)
(* callMeasure: what a parsed response does to the session, up to the      *)
(* assignment of the accuracy.  S is the part of the state the block       *)
(* touches, [lr, chart, blips, live]; sw is the sweep angle it reads;      *)
(* draws holds the Math.random() draws of its addBlip calls, in order.     *)
(***************************************************************************)
Session == [lr |-> lastResults, chart |-> chartData, blips |-> blips, live |-> live]

\* a slip that would leave the readings alone
applyDistanceNoReading(S, data, sw, draws) ==
  LET d == Coalesce(data.distance, Obj)
  IN [lr |-> [S.lr EXCEPT !.distance = d,
                          !.speed = IF Truthy(data.speed) THEN data.speed ELSE @,
                          !.ambTemp = IF Truthy(data.ambient_temp) THEN data.ambient_temp ELSE @],
      chart |-> pushChart(S.chart, d),
      blips |-> addBlip(S.blips, sw, d, draws[1]),
      live |-> [S.live EXCEPT !.amb = IF Truthy(data.ambient_temp) THEN data.ambient_temp ELSE @]]

\* type === 'distance'
applyDistance(S, data, sw, draws) ==
  LET d == Coalesce(data.distance, Obj)
  IN [lr |-> [S.lr EXCEPT !.distance = d,
                          !.speed = IF Truthy(data.speed) THEN data.speed ELSE @,
                          !.ambTemp = IF Truthy(data.ambient_temp) THEN data.ambient_temp ELSE @,
                          !.readings = Append(@, d)],
      chart |-> pushChart(S.chart, d),
      blips |-> addBlip(S.blips, sw, d, draws[1]),
      live |-> [S.live EXCEPT !.amb = IF Truthy(data.ambient_temp) THEN data.ambient_temp ELSE @]]

\* readings.forEach(v => { pushChart(v); addBlip(v); }) from element i on
RECURSIVE forEachReading(_, _, _, _, _, _)
forEachReading(readings, i, chart, bl, sw, draws) ==
  IF i > Len(readings) THEN [chart |-> chart, blips |-> bl]
  ELSE forEachReading(readings, i + 1, pushChart(chart, readings[i]),
                      addBlip(bl, sw, readings[i], draws[i]), sw, draws)

\* a slip that would merge the response's readings into the ones held
applyShapeMerging(S, data, sw, draws) ==
  LET readings == Or(data.readings, Arr(<<>>))
      each == forEachReading(readings.a, 1, S.chart, S.blips, sw, draws)
  IN [lr |-> [S.lr EXCEPT !.readings = @ \o readings.a,
                          !.shape = Or(data.shape, @)],
      chart |-> each.chart,
      blips |-> each.blips,
      live |-> S.live]

\* type === 'shape'
applyShape(S, data, sw, draws) ==
  LET readings == Or(data.readings, Arr(<<>>))
      each == forEachReading(readings.a, 1, S.chart, S.blips, sw, draws)
  IN [lr |-> [S.lr EXCEPT !.readings = readings.a,
                          !.shape = Or(data.shape, @)],
      chart |-> each.chart,
      blips |-> each.blips,
      live |-> S.live]

\* a slip that would assign the temperatures of the response even when it has none
applyMaterialAssigning(S, data, sw, draws) ==
  LET lr == [S.lr EXCEPT !.material = Or(data.material, @),
                         !.rgb = Or(data.rgb, @),
                         !.objTemp = IF data.object_temp = Undefined THEN Null
                                     ELSE data.object_temp,
                         !.ambTemp = IF data.ambient_temp = Undefined THEN Null
                                     ELSE data.ambient_temp]
  IN [lr |-> lr,
      chart |-> S.chart,
      blips |-> addBlip(S.blips, sw, Or(lr.distance, Num(30)), draws[1]),
      live |-> [S.live EXCEPT !.obj = IF Truthy(lr.objTemp) THEN lr.objTemp ELSE @,
                              !.amb = IF Truthy(lr.ambTemp) THEN lr.ambTemp ELSE @]]

\* type === 'material'
applyMaterial(S, data, sw, draws) ==
  LET lr == [S.lr EXCEPT !.material = Or(data.material, @),
                         !.rgb = Or(data.rgb, @),
                         !.objTemp = Coalesce(data.object_temp, @),
                         !.ambTemp = Coalesce(data.ambient_temp, @)]
  IN [lr |-> lr,
      chart |-> S.chart,
      blips |-> addBlip(S.blips, sw, Or(lr.distance, Num(30)), draws[1]),
      live |-> [S.live EXCEPT !.obj = IF Truthy(lr.objTemp) THEN lr.objTemp ELSE @,
                              !.amb = IF Truthy(lr.ambTemp) THEN lr.ambTemp ELSE @]]

\* chart.data.datasets[0].data.filter(v => v !== null)
RECURSIVE nonNull(_)
nonNull(d) ==
  IF d = <<>> THEN <<>>
  ELSE IF Head(d) = Null THEN nonNull(Tail(d)) ELSE <<Head(d)>> \o nonNull(Tail(d))

\* a slip that would take an unknown object temperature as 25 whatever the ambient is
objectOr25(S) == Or(Or(S.lr.objTemp, ParseFloat(S.live.obj)), Num(25))

\* the temperatures handed to computeAccuracy
ambientUsed(S) == Or(Or(S.lr.ambTemp, ParseFloat(S.live.amb)), Num(25))
objectUsed(S) == Or(Or(S.lr.objTemp, ParseFloat(S.live.obj)), Or(S.lr.ambTemp, Num(25)))

\* a slip that would take the deviation from the chart series whatever the readings are
varianceFromChart(S) == nonNull(S.chart)

\* the readings whose deviation is taken
varianceSource(S) == IF Len(S.lr.readings) # 0 THEN S.lr.readings ELSE nonNull(S.chart)

\* "recompute accuracy": the value assigned to lastResults.accuracy
accuracyOf(S) == computeAccuracy(ambientUsed(S), objectUsed(S), stddev(varianceSource(S)))

\* a slip that would leave the accuracy to a later step
recomputeLater(S) == S

recompute(S) == [S EXCEPT !.lr.accuracy = accuracyOf(S)]

\* the number of addBlip calls a response makes
blipCalls(type, data) ==
  IF type = "shape" THEN Or(data.readings, Arr(<<>>)).n ELSE 1

\* the values a response hands to pushChart, in order
pushedBy(type, data) ==
  CASE type = "distance" -> <<Coalesce(data.distance, Obj)>>
    [] type = "shape" -> Or(data.readings, Arr(<<>>)).a
    [] type = "material" -> <<>>

\* the whole block: the branch of the kind, then the accuracy
handle(type, S, data, sw, draws) ==
  recompute(CASE type = "distance" -> applyDistance(S, data, sw, draws)
              [] type = "shape" -> applyShape(S, data, sw, draws)
              [] type = "material" -> applyMaterial(S, data, sw, draws))

\* a slip that would compare with the floor instead of 90
belowFloor(acc) == IsNum(acc) /\ acc.n < ACCURACY_MIN

\* if (acc < 90): false for NaN
lowAccuracy(acc) == IsNum(acc) /\ acc.n < 9000

(***************************************************************************)
(* The handlers.  A callMeasure call runs in up to three steps, separated  *)
(* by its awaits: the click (to the first await), the measurement response *)
(* (to the await of the /buzzer call or to the end), the /buzzer response. *)
(***************************************************************************)
\* the click on a trigger, the first of at most max; a disabled button fires no click event
press(type, max) ==
  /\ ~btnDisabled[type]
  /\ clicks < max
  /\ btnDisabled' = [btnDisabled EXCEPT ![type] = TRUE]
  /\ fetching' = [fetching EXCEPT ![type] = @ + 1]
  /\ clicks' = clicks + 1
  /\ UNCHANGED <<lastResults, chartData, sweep, blips, live, dots, alerting, buzzerCalls,
                 ticks, measured, pushed, page, modal>>

Click(type) == press(type, MaxClicks)

\* a slip that would leave the trigger disabled after a failure
MeasureFailsStuck(type) ==
  /\ fetching[type] > 0
  /\ fetching' = [fetching EXCEPT ![type] = @ - 1]
  /\ UNCHANGED <<lastResults, chartData, sweep, blips, live, dots, btnDisabled, alerting,
                 buzzerCalls, clicks, ticks, measured, pushed, page, modal>>

\* fetch or res.json() rejects: catch logs, finally re-enables the trigger
MeasureFails(type) ==
  /\ fetching[type] > 0
  /\ fetching' = [fetching EXCEPT ![type] = @ - 1]
  /\ btnDisabled' = [btnDisabled EXCEPT ![type] = FALSE]
  /\ UNCHANGED <<lastResults, chartData, sweep, blips, live, dots, alerting, buzzerCalls,
                 clicks, ticks, measured, pushed, page, modal>>

\* the response parses to data: the block of the kind, the accuracy, and either the
\* call of /buzzer (awaited) or the end of the call
MeasureResponds(type, data, draws) ==
  /\ fetching[type] > 0
  /\ LET S == handle(type, Session, data, sweep, draws)
     IN /\ lastResults' = S.lr
        /\ chartData' = S.chart
        /\ blips' = S.blips
        /\ live' = S.live
        /\ fetching' = [fetching EXCEPT ![type] = @ - 1]
        /\ IF lowAccuracy(S.lr.accuracy)
           THEN /\ buzzerCalls' = buzzerCalls + 1
                /\ alerting' = [alerting EXCEPT ![type] = @ + 1]
                /\ UNCHANGED btnDisabled
           ELSE /\ btnDisabled' = [btnDisabled EXCEPT ![type] = FALSE]
                /\ UNCHANGED <<buzzerCalls, alerting>>
  /\ measured' = TRUE
  /\ pushed' = pushed \o pushedBy(type, data)
  /\ UNCHANGED <<sweep, dots, clicks, ticks, page, modal>>

\* the /buzzer call returns, or fails and is logged: either way the call ends
BuzzerSettles(type) ==
  /\ alerting[type] > 0
  /\ alerting' = [alerting EXCEPT ![type] = @ - 1]
  /\ btnDisabled' = [btnDisabled EXCEPT ![type] = FALSE]
  /\ UNCHANGED <<lastResults, chartData, sweep, blips, live, dots, fetching, buzzerCalls,
                 clicks, ticks, measured, pushed, page, modal>>

\* setDot(el, s.x !== false ? true : null)
dotOf(v) == IF v # False THEN "ok" ELSE "neutral"

\* fetchStatus, the response parsed to s
StatusResponds(s) ==
  /\ dots' = [x \in Sensors |-> dotOf(s[x])]
  /\ live' = [amb |-> IF s.ambient_temp # Undefined THEN s.ambient_temp ELSE live.amb,
              obj |-> IF s.object_temp # Undefined THEN s.object_temp ELSE live.obj]
  /\ lastResults' = [lastResults EXCEPT
                       !.ambTemp = IF s.ambient_temp # Undefined THEN s.ambient_temp ELSE @,
                       !.objTemp = IF s.object_temp # Undefined THEN s.object_temp ELSE @]
  /\ UNCHANGED <<chartData, sweep, blips, btnDisabled, fetching, alerting, buzzerCalls,
                 clicks, ticks, measured, pushed, page, modal>>

\* fetchStatus, the fetch or the parse failing: every dot neutral
StatusFails ==
  /\ dots' = [x \in Sensors |-> "neutral"]
  /\ UNCHANGED <<lastResults, chartData, sweep, blips, live, btnDisabled, fetching,
                 alerting, buzzerCalls, clicks, ticks, measured, pushed, page, modal>>

TWO_PI == 6283185
sweepSpeed == 30000

\* a slip that would take only half a tick off a blip's ttl
decaySlow(b) == [b EXCEPT !.alpha = (@ * 99) \div 100, !.ttl = @ - 500]

\* a slip that would keep a blip whose ttl has just reached 0
expiredLate(b) == b.ttl < 0 \/ b.alpha < 20000

\* the blips loop of draw: decay, then removal
decay(b) == [b EXCEPT !.alpha = (@ * 99) \div 100, !.ttl = @ - 1000]
expired(b) == b.ttl <= 0 \/ b.alpha < 20000

RECURSIVE decayAll(_)
decayAll(bl) ==
  IF bl = <<>> THEN <<>>
  ELSE LET b == decay(Head(bl))
       IN IF expired(b) THEN decayAll(Tail(bl)) ELSE <<b>> \o decayAll(Tail(bl))

\* what an animation frame does
advance ==
  /\ blips' = decayAll(blips)
  /\ sweep' = IF sweep + sweepSpeed > TWO_PI THEN sweep + sweepSpeed - TWO_PI
              ELSE sweep + sweepSpeed
  /\ ticks' = ticks + 1
  /\ UNCHANGED <<lastResults, chartData, live, dots, btnDisabled, fetching, alerting,
                 buzzerCalls, clicks, measured, pushed, page, modal>>

\* one animation frame, one of at most max
frame(max) == ticks < max /\ advance

draw == frame(MaxTicks)

Next ==
  \/ \E type \in Kinds : Click(type)
  \/ \E type \in Kinds : MeasureFails(type)
  \/ \E type \in Kinds : \E data \in Bodies(type) :
        \E draws \in [1..blipCalls(type, data) -> Draws] : MeasureResponds(type, data, draws)
  \/ \E type \in Kinds : BuzzerSettles(type)
  \/ \E s \in StatusBodies : StatusResponds(s)
  \/ StatusFails
  \/ draw

Spec == Init /\ [][Next]_vars

\* runs that only measure distances and shapes, long enough to push more than MAX_POINTS
\* values
ChartKinds == {"distance", "shape"}
ChartBodies(type) ==
  IF type = "distance" THEN {[Body EXCEPT !.distance = Num(50)]}
  ELSE {[Body EXCEPT !.readings = Arr(<<Num(48), Num(52)>>), !.shape = Cube],
        [Body EXCEPT !.readings = Arr(<<Null, Num(250)>>)]}

ChartClick(type) == press(type, MaxChartClicks)

ChartNext ==
  \/ \E type \in ChartKinds : ChartClick(type)
  \/ \E type \in ChartKinds : \E data \in ChartBodies(type) :
        \E draws \in [1..blipCalls(type, data) -> Draws] : MeasureResponds(type, data, draws)
  \/ \E type \in ChartKinds : BuzzerSettles(type)

SpecChart == Init /\ [][ChartNext]_vars

(***************************************************************************)
(* The minimal page (unnamed/part_000): sendAction and its two callbacks.  *)
(* page.pending counts, per kind, the requests awaiting their response;    *)
(* page.active is the trigger's 'active' class; page.output is what the    *)
(* output box shows; page.sent counts the triggers fired; page.angle is    *)
(* the angle of the page's own radar arm.                                  *)
(***************************************************************************)
script == <<lastResults, chartData, sweep, blips, live, dots, btnDisabled, fetching,
            alerting, buzzerCalls, clicks, ticks, measured, pushed, modal>>

\* the text of the output box after a failure
ErrorText == Str(4)

\* the click on a trigger: the button is marked active, never disabled, and the request
\* is issued
sendAction(type) ==
  /\ page.sent < MaxSends
  /\ page' = [page EXCEPT !.pending[type] = @ + 1,
                          !.active[type] = TRUE,
                          !.sent = @ + 1]
  /\ UNCHANGED script

\* .then(data => ...): the output box shows the prefix of the kind and the data
sendActionResponds(type, data) ==
  /\ page.pending[type] > 0
  /\ page' = [page EXCEPT !.pending[type] = @ - 1,
                          !.active[type] = FALSE,
                          !.output = [prefix |-> type, data |-> data]]
  /\ UNCHANGED script

\* .catch(err => ...): the output box shows the error
sendActionFails(type) ==
  /\ page.pending[type] > 0
  /\ page' = [page EXCEPT !.pending[type] = @ - 1,
                          !.active[type] = FALSE,
                          !.output = ErrorText]
  /\ UNCHANGED script

PageNext ==
  \/ \E type \in Kinds : sendAction(type)
  \/ \E type \in Kinds : \E data \in Bodies(type) : sendActionResponds(type, data)
  \/ \E type \in Kinds : sendActionFails(type)

SpecPage == Init /\ [][PageNext]_vars

(***************************************************************************)
(* Runs of measurements alone, the status of each response made explicit.  *)
(***************************************************************************)
\* the response arrives with status ok or not and its body parses to data: callMeasure
\* never reads res.ok, so the data of a response that is not OK is handled like any other
MeasureAnswers(type, ok, data, draws) == MeasureResponds(type, data, draws)

\* the body parses to null: the first read of a field of data throws before anything is
\* written; catch logs, finally re-enables the trigger
MeasureThrows(type) == MeasureFails(type)

FailNext ==
  \/ \E type \in Kinds : Click(type)
  \/ \E type \in Kinds : MeasureFails(type)
  \/ \E type \in Kinds : MeasureThrows(type)
  \/ \E type \in Kinds : \E ok \in BOOLEAN : \E data \in Bodies(type) :
        \E draws \in [1..blipCalls(type, data) -> Draws] :
          MeasureAnswers(type, ok, data, draws)
  \/ \E type \in Kinds : BuzzerSettles(type)

SpecFail == Init /\ [][FailNext]_vars

\* the measurement call of the kind completes: it fails, or its response is handled
MeasureSettles(type) ==
  \/ MeasureFails(type)
  \/ MeasureThrows(type)
  \/ \E ok \in BOOLEAN : \E data \in Bodies(type) :
        \E draws \in [1..blipCalls(type, data) -> Draws] :
          MeasureAnswers(type, ok, data, draws)

\* every network call eventually completes
SpecLive ==
  /\ SpecFail
  /\ \A type \in Kinds : WF_vars(MeasureSettles(type)) /\ WF_vars(BuzzerSettles(type))

(***************************************************************************)
(* Runs of the radar: distance measurements, each adding a blip, and       *)
(* enough animation frames for the blips to expire.                        *)
(***************************************************************************)
\* the two Math.random() values of addBlip: the jitter at either end, and a ttl of 70 and
\* of 71 ticks
RadarDraws == {<<0, 0>>, <<999, 25>>}
RadarKinds == {"distance", "shape"}
RadarBodies(type) ==
  IF type = "distance" THEN {[Body EXCEPT !.distance = Num(50)]}
  ELSE {[Body EXCEPT !.readings = Arr(<<Num(48), Num(52)>>), !.shape = Cube]}

RadarClick(type) == press(type, MaxRadarClicks)
RadarFrame == frame(MaxRadarTicks)

RadarNext ==
  \/ \E type \in RadarKinds : RadarClick(type)
  \/ \E type \in RadarKinds : \E data \in RadarBodies(type) :
        \E draws \in [1..blipCalls(type, data) -> RadarDraws] :
          MeasureResponds(type, data, draws)
  \/ RadarFrame

SpecRadar == Init /\ [][RadarNext]_vars

(***************************************************************************)
(* Runs of the two radar arms alone: the dashboard's sweep and the angle   *)
(* of the minimal page, for more than a full turn.                         *)
(***************************************************************************)
\* angle += 0.03
angleStep == 30000

\* one frame of the minimal page: the arm advances; nothing takes a turn off the angle
drawRadar ==
  /\ page.angle < MaxPageFrames * angleStep
  /\ page' = [page EXCEPT !.angle = @ + angleStep]
  /\ UNCHANGED script

SweepFrame == frame(MaxSweepTicks)

SweepNext ==
  \/ SweepFrame
  \/ drawRadar

SpecSweep == Init /\ [][SweepNext]_vars

(***************************************************************************)
(* openConclusion: the explanation the modal shows, kept as the clauses it *)
(* holds and the accuracy it ends with.  The other lines of the modal      *)
(* print fields of the snapshot and are not kept.                          *)
(***************************************************************************)
\* objT, ambT: the snapshot's temperature unless null or undefined, else the live text
\* without its unit, a string (a text that is not a number stands for any such string)
shownTemp(v, text) ==
  IF v.t \notin {"null", "undefined"} THEN v ELSE IF IsNum(text) THEN text ELSE Dash

\* parseFloat(x) || 0
floatOr0(v) == IF IsNum(v) THEN v.n ELSE 0

\* s > 1.5 for the deviation sqrt(S)/n: false for NaN
above(sigma) == ~sigma.nan /\ 4 * sigma.S > 9 * sigma.n * sigma.n

explanation(S) ==
  LET objT == shownTemp(S.lr.objTemp, S.live.obj)
      ambT == shownTemp(S.lr.ambTemp, S.live.amb)
      s == stddev(varianceSource(S))
      dt == Abs(floatOr0(objT) - floatOr0(ambT))
  IN [thermal |-> dt > 3,
      variance |-> above(s),
      favorable |-> ~(dt > 3) /\ ~above(s),
      acc |-> Coalesce(S.lr.accuracy, computeAccuracy(ambT, objT, s))]

\* the click on the conclusion button
openConclusion ==
  /\ modal' = explanation(Session)
  /\ UNCHANGED <<lastResults, chartData, sweep, blips, live, dots, btnDisabled, fetching,
                 alerting, buzzerCalls, clicks, ticks, measured, pushed, page>>

ConclusionNext ==
  \/ \E type \in Kinds : Click(type)
  \/ \E type \in Kinds : \E data \in Bodies(type) :
        \E draws \in [1..blipCalls(type, data) -> Draws] : MeasureResponds(type, data, draws)
  \/ \E type \in Kinds : BuzzerSettles(type)
  \/ \E s \in StatusBodies : StatusResponds(s)
  \/ openConclusion

SpecConclusion == Init /\ [][ConclusionNext]_vars

(***************************************************************************)
(* Runs of distance measurements in and out of the radar's range, with the *)
(* jitter at either end and frames in between to move the sweep.           *)
(***************************************************************************)
ClampBodies ==
  {[Body EXCEPT !.distance = Num(d)] : d \in {0 - 40, 0, 50, 200, 250}}
ClampDraws == {<<0, 0>>, <<999, 999>>}

ClampClick == press("distance", MaxClampClicks)
ClampFrame == frame(MaxClampTicks)

ClampNext ==
  \/ ClampClick
  \/ \E data \in ClampBodies : \E draws \in [1..1 -> ClampDraws] :
        MeasureResponds("distance", data, draws)
  \/ BuzzerSettles("distance")
  \/ ClampFrame

SpecClamp == Init /\ [][ClampNext]_vars

(***************************************************************************)
(* Runs with a request of every kind in flight at once, status polls and   *)
(* animation frames in between.                                            *)
(***************************************************************************)
FlightBodies(type) ==
  CASE type = "distance" -> {[Body EXCEPT !.distance = Num(50)]}
    [] type = "shape" -> {[Body EXCEPT !.readings = Arr(<<Num(48), Num(52)>>), !.shape = Cube]}
    [] type = "material" -> {[Body EXCEPT !.material = Wood, !.rgb = Rgb(1),
                                          !.object_temp = Num(40), !.ambient_temp = Num(20)]}

FlightClick(type) == press(type, MaxFlightClicks)
FlightFrame == frame(MaxFlightTicks)

FlightNext ==
  \/ \E type \in Kinds : FlightClick(type)
  \/ \E type \in Kinds : \E data \in FlightBodies(type) :
        \E draws \in [1..blipCalls(type, data) -> Draws] : MeasureResponds(type, data, draws)
  \/ \E type \in Kinds : BuzzerSettles(type)
  \/ \E s \in StatusBodies : StatusResponds(s)
  \/ FlightFrame

SpecFlight == Init /\ [][FlightNext]_vars

(***************************************************************************)
(* Runs where the animation keeps running: frames are drawn as long as a   *)
(* blip is left, and blips get the shortest and the longest ttl.           *)
(***************************************************************************)
DecayDraws == {<<500, 0>>, <<500, 999>>}
DecayBodies == {[Body EXCEPT !.distance = Num(50)]}

DecayClick == press("distance", MaxDecayClicks)

\* requestAnimationFrame(draw) at the end of every frame: the next frame always comes
DecayFrame == (ticks < MaxDecayTicks \/ blips # <<>>) /\ advance

DecayNext ==
  \/ DecayClick
  \/ \E data \in DecayBodies : \E draws \in [1..1 -> DecayDraws] :
        MeasureResponds("distance", data, draws)
  \/ DecayFrame

SpecDecay == Init /\ [][DecayNext]_vars /\ WF_vars(DecayFrame)

(***************************************************************************)
(* Properties                                                              *)
(***************************************************************************)
\* the draws a response of the kind may make
DrawsOf(type, data) == [1..blipCalls(type, data) -> Draws]

\* C1: in every reachable state the accuracy is null exactly when no measurement result
\* has been applied, and otherwise it is the accuracy recomputed from the snapshot's
\* current readings and temperatures (no step changes those and leaves the accuracy).
C1_AccuracyIsCurrent ==
  IF ~measured THEN lastResults.accuracy = Null
  ELSE lastResults.accuracy = accuracyOf(Session)

\* C2 as claimed: for each of the three kinds, handling the same response twice in a row
\* leaves the snapshot that handling it once leaves.
C2_EveryKindIdempotent ==
  \A type \in Kinds : \A data \in Bodies(type) :
    \A d1 \in DrawsOf(type, data) : \A d2 \in DrawsOf(type, data) :
      LET S1 == handle(type, Session, data, sweep, d1)
      IN handle(type, S1, data, sweep, d2).lr = S1.lr

\* C2 as amended: handling the same shape or material response twice in a row leaves the
\* snapshot of handling it once; handling the same distance response twice leaves the
\* same distance, shape, material, rgb, temperatures and speed, and readings one element
\* longer: the distance appended again.
C2_ShapeAndMaterialIdempotent ==
  \A type \in Kinds : \A data \in Bodies(type) :
    \A d1 \in DrawsOf(type, data) : \A d2 \in DrawsOf(type, data) :
      LET S1 == handle(type, Session, data, sweep, d1)
          S2 == handle(type, S1, data, sweep, d2)
      IN IF type = "distance"
         THEN /\ S2.lr.readings = Append(S1.lr.readings, S1.lr.distance)
              /\ [S2.lr EXCEPT !.readings = S1.lr.readings, !.accuracy = S1.lr.accuracy]
                   = S1.lr
         ELSE S2.lr = S1.lr

\* the same shape response has been handled twice running: the snapshot is that of once
C2_Witness ==
  /\ pushed = <<Num(48), Num(52), Num(48), Num(52)>>
  /\ lastResults.readings = <<Num(48), Num(52)>>
  /\ lastResults.shape = Cube

\* C3: the chart series starts as MAX_POINTS nulls and never holds more than MAX_POINTS
\* entries, whatever has been pushed.
C3_ChartBounded ==
  /\ Len(chartData) <= MAX_POINTS
  /\ pushed = <<>> => chartData = [i \in 1..MAX_POINTS |-> Null]

\* pushes of a distance and of a shape's readings have been made
C3_Witness ==
  /\ Len(pushed) >= 3
  /\ lastResults.distance # Null
  /\ chartData[MAX_POINTS] # Null

\* C4: eviction is first-in first-out: after k pushes the series holds, in push order,
\* the last MAX_POINTS entries of the initial nulls followed by the k pushed values (the
\* last MAX_POINTS pushed values once k >= MAX_POINTS).
C4_Fifo ==
  LET all == [i \in 1..MAX_POINTS |-> Null] \o pushed
  IN chartData = SubSeq(all, Len(all) - MAX_POINTS + 1, Len(all))

\* more than MAX_POINTS values have been pushed: the first pushed values are gone
C4_Witness ==
  /\ Len(pushed) > MAX_POINTS
  /\ chartData[1] = pushed[Len(pushed) - MAX_POINTS + 1]
  /\ chartData[MAX_POINTS] = pushed[Len(pushed)]

\* the step in which the response data of a measurement of the kind is handled
Measured(type, data) == \E draws \in DrawsOf(type, data) : MeasureResponds(type, data, draws)

\* the reading list of a shape response; none reads as the empty list
listOf(data) == IF data.readings.t = "array" THEN data.readings.a ELSE <<>>

\* C5: handling a shape response replaces the readings: whatever the readings were
\* (empty, filled by distances or by an earlier shape), afterwards they are exactly the
\* response's reading list.
C5_ShapeOverwrites ==
  [][\A data \in ShapeBodies :
       Measured("shape", data) => lastResults'.readings = listOf(data)]_vars

\* a shape's readings have replaced readings that a distance had filled
C5_Witness ==
  /\ pushed = <<Num(50), Num(48), Num(52)>>
  /\ lastResults.readings = <<Num(48), Num(52)>>

\* C6: handling a distance response with distance d sets the snapshot's distance to d,
\* appends d to the readings (the earlier ones kept, in order), makes d the newest entry
\* of the chart series and adds exactly one blip.
C6_DistanceApplied ==
  [][\A data \in DistanceBodies :
       (IsNum(data.distance) /\ Measured("distance", data)) =>
         /\ lastResults'.distance = data.distance
         /\ lastResults'.readings = Append(lastResults.readings, data.distance)
         /\ chartData'[Len(chartData')] = data.distance
         /\ Len(blips') = Len(blips) + 1
         /\ SubSeq(blips', 1, Len(blips)) = blips]_vars

\* a distance has been appended to readings a shape had filled
C6_Witness ==
  /\ lastResults.readings = <<Num(48), Num(52), Num(50)>>
  /\ lastResults.distance = Num(50)
  /\ chartData[MAX_POINTS] = Num(50)
  /\ Len(blips) = 3

\* the fields a material response may overwrite, each with the response's field
MaterialFields == {<<"material", "material">>, <<"rgb", "rgb">>,
                   <<"objTemp", "object_temp">>, <<"ambTemp", "ambient_temp">>}

\* C7: handling a material response is a partial update: material, rgb, objectTemp and
\* ambientTemp each either keep their value or take the response's, and keep it when the
\* response lacks the field (a material or rgb that is set, and a temperature that is a
\* number, is taken); distance, readings, shape, speed and the chart series are left as
\* they were; exactly one blip is added.
C7_MaterialPartial ==
  [][\A data \in MaterialBodies :
       Measured("material", data) =>
         /\ \A f \in MaterialFields :
              /\ lastResults'[f[1]] \in {lastResults[f[1]], data[f[2]]}
              /\ data[f[2]] = Undefined => lastResults'[f[1]] = lastResults[f[1]]
         /\ Truthy(data.material) => lastResults'.material = data.material
         /\ Truthy(data.rgb) => lastResults'.rgb = data.rgb
         /\ IsNum(data.object_temp) => lastResults'.objTemp = data.object_temp
         /\ IsNum(data.ambient_temp) => lastResults'.ambTemp = data.ambient_temp
         /\ lastResults'.distance = lastResults.distance
         /\ lastResults'.readings = lastResults.readings
         /\ lastResults'.shape = lastResults.shape
         /\ lastResults'.speed = lastResults.speed
         /\ chartData' = chartData
         /\ Len(blips') = Len(blips) + 1
         /\ SubSeq(blips', 1, Len(blips)) = blips]_vars

\* a response with only an object temperature has been handled after a full one: the
\* material, the colour and the ambient temperature of the first are kept
C7_Witness ==
  /\ lastResults.material = Wood
  /\ lastResults.rgb = Rgb(1)
  /\ lastResults.ambTemp = Num(20)
  /\ lastResults.objTemp = Num(22)
  /\ Len(blips) = 2

\* a temperature that is unknown, or known and not 0
Plain(v) == v = Null \/ (IsNum(v) /\ v.n # 0)

\* C8 as claimed: when the accuracy is recomputed, an unknown ambient temperature is
\* taken as 25 and, independently, an unknown object temperature as 25.
C8_UnknownIs25 ==
  [][\A type \in Kinds : \A data \in Bodies(type) :
       (Measured(type, data) /\ Plain(lastResults'.ambTemp) /\ Plain(lastResults'.objTemp)) =>
         lastResults'.accuracy =
           computeAccuracy(IF lastResults'.ambTemp = Null THEN Num(25) ELSE lastResults'.ambTemp,
                           IF lastResults'.objTemp = Null THEN Num(25) ELSE lastResults'.objTemp,
                           stddev(varianceSource(Session')))]_vars

\* C8 as amended: when the accuracy is recomputed, an unknown ambient temperature is taken
\* as 25, and an unknown object temperature as the ambient temperature when that is known
\* and as 25 when it is not (temperatures that are known are not 0 here).
C8_UnknownObjectIsAmbient ==
  [][\A type \in Kinds : \A data \in Bodies(type) :
       (Measured(type, data) /\ Plain(lastResults'.ambTemp) /\ Plain(lastResults'.objTemp)) =>
         LET amb == IF lastResults'.ambTemp = Null THEN Num(25) ELSE lastResults'.ambTemp
         IN lastResults'.accuracy =
              computeAccuracy(amb,
                              IF lastResults'.objTemp = Null THEN amb ELSE lastResults'.objTemp,
                              stddev(varianceSource(Session')))]_vars

\* the accuracy has been recomputed with the ambient temperature known and the object
\* temperature unknown: no temperature difference is counted
C8_Witness ==
  /\ measured
  /\ lastResults.ambTemp = Num(20)
  /\ lastResults.objTemp = Null
  /\ lastResults.readings = <<Num(0)>>
  /\ lastResults.accuracy = Num(10000)

\* the step in which a response is handled and the accuracy recomputed is below 90
LowAccuracyStep ==
  /\ \E type \in Kinds : \E data \in Bodies(type) : Measured(type, data)
  /\ IsNum(lastResults'.accuracy)
  /\ lastResults'.accuracy.n < 9000

\* C9: /buzzer is called once in the step that handles a response whose recomputed
\* accuracy is below 90, and in no other step: not when the accuracy is 90 or more, and
\* not again when the call returns or fails.
C9_AlertOncePerLowAccuracy ==
  [][buzzerCalls' = buzzerCalls + (IF LowAccuracyStep THEN 1 ELSE 0)]_vars

\* two responses have been handled, one call of /buzzer was made (for the one with a low
\* accuracy) and it has settled
C9_Witness ==
  /\ buzzerCalls = 1
  /\ clicks = 2
  /\ \A k \in Kinds : fetching[k] = 0 /\ alerting[k] = 0
  /\ IsNum(lastResults.accuracy) /\ lastResults.accuracy.n >= 9000
  /\ Len(blips) >= 2

\* C10: at every moment at most one measurement request of each kind is outstanding, on
\* the dashboard and on the minimal page alike: a trigger is disabled exactly while its
\* request, or the alert that follows it, is outstanding.
C10_OnePerKind ==
  \A k \in Kinds :
    /\ fetching[k] + alerting[k] <= 1
    /\ btnDisabled[k] <=> (fetching[k] + alerting[k] = 1)
    /\ page.pending[k] <= 1

\* the step that ends a measurement request in failure: the fetch or the parse of the
\* body rejects, or the response is not OK
RequestFails(type) ==
  \/ MeasureFails(type)
  \/ \E data \in Bodies(type) : \E draws \in DrawsOf(type, data) :
        MeasureAnswers(type, FALSE, data, draws)

\* C11: a measurement request that fails (transport error, response that is not OK, body
\* that does not parse) leaves the snapshot, the chart series and the blips as they were
\* and issues no further request.
C11_FailureLeavesSession ==
  [][\A type \in Kinds :
       RequestFails(type) =>
         /\ UNCHANGED <<lastResults, chartData, blips>>
         /\ \A k \in Kinds : fetching'[k] <= fetching[k]]_vars

\* C12: a measurement request that fails changes something the operator sees besides the
\* trigger itself: a live text or an indicator shows the failure.
C12_FailureSurfaced ==
  [][\A type \in Kinds : MeasureFails(type) => (live' # live \/ dots' # dots)]_vars

\* a stored value that is a number or null
NumberOrNull(v) == v.t \in {"number", "null"}

\* C13: whatever fields the payloads handled so far lacked, every stored reading and every
\* chart entry is a number or null and, once a payload has been handled, the accuracy is
\* a number from 80 to 100.
C13_DefaultsKeepSessionNumeric ==
  /\ \A i \in 1..Len(lastResults.readings) : NumberOrNull(lastResults.readings[i])
  /\ \A i \in 1..Len(chartData) : NumberOrNull(chartData[i])
  /\ measured => /\ IsNum(lastResults.accuracy)
                 /\ lastResults.accuracy.n >= ACCURACY_MIN
                 /\ lastResults.accuracy.n <= 10000

\* C14: in every step, the sweep angle and the blips change only if the step is an
\* animation frame, and the snapshot changes only if the step handles a measurement
\* response; so a status poll changes no snapshot field and a measurement response no
\* animation state.
C14_SingleWriter ==
  [][/\ (sweep' # sweep \/ blips' # blips) => draw
     /\ lastResults' # lastResults =>
          \E type \in Kinds : \E data \in Bodies(type) : Measured(type, data)]_vars

\* C15: if every network call eventually completes, a measurement trigger that is
\* disabled is eventually enabled again, whether its measurement call failed, the
\* handling of the payload threw, or the alert call failed.
C15_TriggersReenabled == \A k \in Kinds : btnDisabled[k] ~> ~btnDisabled[k]

\* of two requests one failed and one was handled and followed by an alert that has
\* settled; every trigger is enabled again
C15_Witness ==
  /\ clicks = 2
  /\ Len(blips) = 1
  /\ buzzerCalls = 1
  /\ \A k \in Kinds : ~btnDisabled[k] /\ fetching[k] = 0 /\ alerting[k] = 0

\* an animation frame, whatever the number of frames allowed
Tick == \E max \in {MaxTicks, MaxRadarTicks, MaxSweepTicks, MaxClampTicks} : frame(max)

\* what a frame leaves of a blip: ttl less one tick, alpha times 0.99
Decayed(b) == [b EXCEPT !.ttl = @ - 1000, !.alpha = (@ * 99) \div 100]

\* the removal rule: ttl <= 0 or alpha < 0.02
Removable(b) == b.ttl <= 0 \/ b.alpha < 20000

\* C16: in every state, between frames and right after addBlip included, no blip has
\* ttl <= 0 or alpha < 0.02; and a frame takes 1 off the ttl of every blip and multiplies
\* its alpha by the decay factor, then removes the blips the rule names and keeps the
\* others in their order.
C16_NoExpiredBlip ==
  /\ [](\A i \in 1..Len(blips) : ~Removable(blips[i]))
  /\ [][Tick =>
         blips' = SelectSeq([i \in 1..Len(blips) |-> Decayed(blips[i])],
                            LAMBDA b : ~Removable(b))]_vars

\* two blips were added; frames have removed the one whose ttl ran out and decayed the
\* one that remains
C16_Witness ==
  /\ Len(pushed) = 2
  /\ Len(blips) = 1
  /\ blips[1].ttl <= 1000
  /\ blips[1].alpha < 500000

\* C17: a frame never leaves more blips than it found, and a blip whose ttl is 1 tick (or
\* less) before a frame is gone after it: no more blips remain than had more than 1 tick
\* to live.
C17_BlipsOnlyExpire ==
  [][Tick =>
       /\ Len(blips') <= Len(blips)
       /\ Len(blips') <= Cardinality({i \in 1..Len(blips) : blips[i].ttl > 1000})]_vars

\* two blips were added and frames have removed both
C17_Witness ==
  /\ Len(pushed) = 2
  /\ blips = <<>>
  /\ ticks >= 71
  /\ \A k \in Kinds : fetching[k] = 0

\* C18: each sweep angle starts at 0 and, in every state, is at least 0 and less than
\* 2*pi, on the dashboard and on the minimal page alike.
C18_SweepInRange ==
  /\ sweep >= 0 /\ sweep < TWO_PI
  /\ page.angle >= 0 /\ page.angle < TWO_PI

\* C19: the accuracy of the session, whenever it is not null, is a number from 80 to 100
\* (what the bounds of computeAccuracy would give it).
C19_AccuracyInRange ==
  lastResults.accuracy # Null =>
    /\ IsNum(lastResults.accuracy)
    /\ lastResults.accuracy.n >= ACCURACY_MIN
    /\ lastResults.accuracy.n <= 10000

\* C20: the step that handles a status response leaves, for each sensor, the indicator
\* healthy ('ok') when the sensor's key is missing or true, and unhealthy ('fail') when
\* its value is false.
C20_DotsShowHealth ==
  [][\A s \in StatusBodies :
       StatusResponds(s) =>
         \A x \in Sensors :
           /\ s[x] \in {Undefined, True} => dots'[x] = "ok"
           /\ s[x] = False => dots'[x] = "fail"]_vars

\* C21: the explanation built by openConclusion holds the thermal-gradient clause exactly
\* when |objectTemp - ambientTemp| > 3 (an unknown temperature counting as 0), the variance
\* clause exactly when the deviation of the snapshot's readings is above 1.5, the
\* 'conditions favorable' clause exactly when it holds neither, and ends with an accuracy
\* that is a number; building it changes no snapshot, chart or radar state.
C21_ExplanationRules ==
  [][openConclusion =>
       /\ modal'.thermal <=>
            Abs(TempNum(lastResults.objTemp) - TempNum(lastResults.ambTemp)) > 3
       /\ modal'.variance <=> above(stddev(lastResults.readings))
       /\ modal'.favorable <=> (~modal'.thermal /\ ~modal'.variance)
       /\ IsNum(modal'.acc)
       /\ UNCHANGED <<lastResults, chartData, sweep, blips>>]_vars

\* the distance as a share of the range, in two-hundredths, held to [0, 1]
Clamped(d) == IF d < 0 THEN 0 ELSE IF d > 200 THEN 200 ELSE d

\* C22: for every distance, negative ones and ones above 200 cm included, addBlip adds a
\* blip (it rejects nothing) whose radius is the distance over 200 held to [0, 1] times
\* maxR, so within [0, maxR], and whose angle is within 0.3 rad of the sweep angle at the
\* call.
C22_BlipClamped ==
  [][\A data \in ClampBodies :
       (\E draws \in [1..1 -> ClampDraws] : MeasureResponds("distance", data, draws)) =>
         /\ Len(blips') = Len(blips) + 1
         /\ LET b == blips'[Len(blips')]
            IN /\ IsNum(b.r)
               /\ b.r.n >= 0 /\ b.r.n <= 200
               /\ b.r.n = Clamped(data.distance.n)
               /\ b.angle - sweep <= 300000
               /\ sweep - b.angle <= 300000]_vars

\* a distance below 0 and one above 200 have been handled: their blips are at the centre
\* and at the rim, the second added after the sweep has moved
C22_Witness ==
  /\ lastResults.readings = <<Num(0 - 40), Num(250)>>
  /\ Len(blips) = 2
  /\ blips[1].r = Num(0)
  /\ blips[2].r = Num(200)
  /\ blips[2].angle > blips[1].angle + 600000

\* the elements of a list that are not null, in order
NonNullOf(list) == SelectSeq(list, LAMBDA v : v # Null)

\* C23: handling a shape response pushes to the chart series exactly the elements of its
\* reading list that are not null, in list order, and adds as many blips: a null element
\* causes neither a push nor a blip.
C23_ShapeSkipsNull ==
  [][\A data \in ShapeBodies :
       Measured("shape", data) =>
         /\ pushed' = pushed \o NonNullOf(listOf(data))
         /\ Len(blips') = Len(blips) + Len(NonNullOf(listOf(data)))]_vars

\* C24: the blip a material response adds is at the snapshot's distance whenever that is
\* not null, a distance of 0 included, and at 30 cm only when the distance is null.
C24_MaterialBlipAtDistance ==
  [][\A data \in MaterialBodies :
       Measured("material", data) =>
         blips'[Len(blips')].r =
           Norm(IF lastResults.distance = Null THEN Num(30) ELSE lastResults.distance)]_vars

\* C25: the step that handles a measurement response leaves the accuracy recomputed from
\* the readings and temperatures it leaves: the snapshot is changed and its accuracy
\* assigned in one step, so no frame, status poll or other response, with requests of all
\* three kinds in flight, finds a snapshot that a response has changed and whose accuracy
\* is still to be recomputed.
C25_ApplyIsAtomic ==
  [][\A type \in Kinds : \A data \in FlightBodies(type) :
       Measured(type, data) => lastResults'.accuracy = accuracyOf(Session')]_vars

\* with a request of every kind in flight, the shape response has been handled while the
\* other two are still awaited
C25_Witness ==
  /\ clicks = 3
  /\ fetching = [k \in Kinds |-> IF k = "shape" THEN 0 ELSE 1]
  /\ lastResults.readings = <<Num(48), Num(52)>>
  /\ lastResults.accuracy = Num(9600)

\* C26: every blip has a bounded lifetime: it never has more than 110 ticks left to live,
\* each frame that keeps it takes a full tick off what is left, and none is kept with
\* nothing left; so, the frames running on and no further blip being added, the blips are
\* eventually all gone and stay gone.
C26_BlipsDieOut ==
  /\ [](\A i \in 1..Len(blips) : blips[i].ttl > 0 /\ blips[i].ttl <= 110000)
  /\ [][DecayFrame =>
         \A j \in 1..Len(blips') :
           \E i \in 1..Len(blips) : blips'[j].ttl = blips[i].ttl - 1000]_vars
  /\ <>[](blips = <<>>)

\* a blip was added and 110 frames or more have been drawn: the blip is gone
C26_Witness ==
  /\ measured
  /\ Len(pushed) = 1
  /\ blips = <<>>
  /\ ticks >= 110

====
